---- MODULE Spec2Model ----
(***************************************************************************)
(* Model of Documentation/CppReference/GEMM/GEMMHeaders.cpp:               *)
(*   - the tiled simdgroup_event::async_copy overloads (SpecCopy),         *)
(*   - the createMemoryAccess generator (SpecGen),                         *)
(*   - the load/store functions it emits, run by one lane (SpecAccess),    *)
(*   - morton_order and the 8x8 lane layout (SpecLane),                    *)
(*   - the device apply_offset (SpecOffset).                               *)
(***************************************************************************)
EXTENDS Integers, Sequences, FiniteSets, TLC

VARIABLES
  \* ---- simdgroup_event::async_copy (tiled) ----
  copyCall,   \* arguments of the last tiled async_copy call (kind "none" before any)
  src,        \* source memory of the copy, element index -> value
  dst,        \* destination memory of the copy, element index -> value
  reads,      \* source cells read by the last call: records [x, y, index]
  writes,     \* writes of the last call in program order: records [x, y, index, value]
  \* ---- createMemoryAccess ----
  desc,       \* the MemoryAccessDescriptor handed to the last call
  assigned,   \* the descriptor fields the caller assigned before the call
  genResult,  \* [error, output] of the last createMemoryAccess call
  \* ---- emitted load/store, one lane ----
  buffer,     \* address space, element type and row stride of the memory buffer
  storage,    \* thread_elements() seen as four 16-bit half-words (bfloat4 view)
  mem,        \* memory behind the pointer: element offset -> element value
  phase,      \* "fresh" | "stored" | "clobbered" | "loaded"
  calls,      \* the emitted-function calls made so far: arguments, path, accesses
  \* ---- morton_order ----
  schedule,   \* [start, step]: the order in which the lanes of the simdgroup run
  lanesDone,  \* number of lanes that have claimed their cells
  owner,      \* cell <<col, row>> -> set of lanes that claimed it
  coords,     \* lane -> morton_order(lane), for the lanes that have run
  \* ---- apply_offset (device) ----
  offsetCall  \* arguments and result of the last apply_offset call

copyVars   == <<copyCall, src, dst, reads, writes>>
genVars    == <<desc, assigned, genResult>>
accessVars == <<buffer, storage, mem, phase, calls>>
laneVars   == <<schedule, lanesDone, owner, coords>>
offsetVars == <<offsetCall>>
vars == <<copyVars, genVars, accessVars, laneVars, offsetVars>>

Min(a, b) == IF a < b THEN a ELSE b

(***************************************************************************)
(* simdgroup_event::async_copy, the two tiled overloads.                   *)
(* Indices are computed in ulong from a ushort coordinate and a ushort or  *)
(* uint stride, so they cannot overflow (65535 * (2^32-1) + 65535 < 2^64); *)
(* the model uses small extents and strides and plain integers.            *)
(***************************************************************************)
MaxExtent == 4      \* tile extents range over 0..MaxExtent
MaxStride == 4      \* largest elements_per_row

Extents == [x : 0..MaxExtent, y : 0..MaxExtent]
\* Row strides: rows that coincide (0), overlap (1, 2) and are disjoint (MaxStride).
DstStrides == {0, 1, 2, MaxStride}
SrcStrides == {1, MaxStride}
MaxIndex == MaxExtent * MaxStride + MaxExtent
Indices == 0..MaxIndex

clamp_to_zero == 0
clamp_to_edge == 1
ClampModes == {clamp_to_zero, clamp_to_edge}

Zero == 0                          \* T(0), line 94
\* Memory contents before a call: every source element holds a distinct
\* positive value and every destination element a distinct negative one, so
\* that the origin of each value found in dst after the call is unambiguous.
SrcContent == [i \in Indices |-> i + 1]
DstContent == [i \in Indices |-> 0 - (i + 1)]

\* .yx swizzle
yx(d) == [x |-> d.y, y |-> d.x]

\* lines 72-75 / 115-118: tile dimensions as used by the loops
SwapDims(transpose_matrix, d) == IF transpose_matrix THEN yx(d) ELSE d

\* line 80
InBounds(x, y, sdim) == (x < sdim.x) /\ (y < sdim.y)

ClampApplies_NoExtentCheck(clamp_mode, sdim) == clamp_mode = clamp_to_edge

\* lines 87-88
ClampApplies(clamp_mode, sdim) ==
  clamp_mode = clamp_to_edge /\ sdim.x > 0 /\ sdim.y > 0

ushort(v) == v % 65536

ClampCoord_OffByOne(v, extent) == Min(v, ushort(extent))

\* lines 89-90: min(x, ushort(extent - 1))
ClampCoord(v, extent) == Min(v, ushort(extent - 1))

\* One iteration of the loop body, lines 80-95.
ForwardCell(st, x, y, a) ==
  LET dst_index == y * a.dst_elements_per_row + x
      in_bounds == InBounds(x, y, a.sdim)
  IN IF in_bounds
     THEN LET src_index == y * a.src_elements_per_row + x
          IN [mem |-> [st.mem EXCEPT ![dst_index] = src[src_index]],
              reads |-> st.reads \cup {[x |-> x, y |-> y, index |-> src_index]},
              writes |-> Append(st.writes,
                 [x |-> x, y |-> y, index |-> dst_index, value |-> src[src_index]])]
     ELSE IF ClampApplies(a.clamp_mode, a.sdim)
     THEN LET sx == ClampCoord(x, a.sdim.x)
              sy == ClampCoord(y, a.sdim.y)
              src_index == sy * a.src_elements_per_row + sx
          IN [mem |-> [st.mem EXCEPT ![dst_index] = src[src_index]],
              reads |-> st.reads \cup {[x |-> sx, y |-> sy, index |-> src_index]},
              writes |-> Append(st.writes,
                 [x |-> x, y |-> y, index |-> dst_index, value |-> src[src_index]])]
     ELSE [mem |-> [st.mem EXCEPT ![dst_index] = Zero],
           reads |-> st.reads,
           writes |-> Append(st.writes,
                 [x |-> x, y |-> y, index |-> dst_index, value |-> Zero])]

\* One iteration of the loop body, lines 126-128.
ReverseCell(st, x, y, a) ==
  LET dst_index == y * a.dst_elements_per_row + x
      src_index == y * a.src_elements_per_row + x
  IN [mem |-> [st.mem EXCEPT ![dst_index] = src[src_index]],
      reads |-> st.reads \cup {[x |-> x, y |-> y, index |-> src_index]},
      writes |-> Append(st.writes,
         [x |-> x, y |-> y, index |-> dst_index, value |-> src[src_index]])]

TileOverlap_DstOnly(d, s) == d

\* lines 121-122
TileOverlap(d, s) == Min(d, s)

\* The nested loops "for y < h, for x < w" (lines 78-79, 124-125), from
\* iteration k on, in row-major order.
RECURSIVE CopyLoop(_, _, _, _, _, _)
CopyLoop(st, k, w, h, a, forward) ==
  IF k >= w * h THEN st
  ELSE LET x == k % w
           y == k \div w
       IN CopyLoop(IF forward THEN ForwardCell(st, x, y, a) ELSE ReverseCell(st, x, y, a),
                   k + 1, w, h, a, forward)

CopyStart == [mem |-> dst, reads |-> {}, writes |-> <<>>]

\* lines 52-98: async_copy, device -> threadgroup, tiled
AsyncCopyForward ==
  /\ copyCall.kind = "none"
  /\ \E dper \in DstStrides, ddim \in Extents, sper \in SrcStrides, sdim \in Extents,
        transpose_matrix \in BOOLEAN, clamp_mode \in ClampModes :
    LET a == [kind |-> "forward",
              dst_elements_per_row |-> dper, dst_tile_dimensions |-> ddim,
              src_elements_per_row |-> sper, src_tile_dimensions |-> sdim,
              transpose_matrix |-> transpose_matrix, clamp_mode |-> clamp_mode,
              ddim |-> SwapDims(transpose_matrix, ddim),
              sdim |-> SwapDims(transpose_matrix, sdim)]
        r == CopyLoop(CopyStart, 0, a.ddim.x, a.ddim.y, a, TRUE)
    IN /\ copyCall' = a
       /\ dst' = r.mem
       /\ reads' = r.reads
       /\ writes' = r.writes
       /\ UNCHANGED <<src, genVars, accessVars, laneVars, offsetVars>>

\* lines 100-131: async_copy, threadgroup -> device, tiled
AsyncCopyReverse ==
  /\ copyCall.kind = "none"
  /\ \E dper \in DstStrides, ddim \in Extents, sper \in SrcStrides, sdim \in Extents,
        transpose_matrix \in BOOLEAN :
    LET a == [kind |-> "reverse",
              dst_elements_per_row |-> dper, dst_tile_dimensions |-> ddim,
              src_elements_per_row |-> sper, src_tile_dimensions |-> sdim,
              transpose_matrix |-> transpose_matrix, clamp_mode |-> clamp_to_zero,
              ddim |-> SwapDims(transpose_matrix, ddim),
              sdim |-> SwapDims(transpose_matrix, sdim)]
        tile_x == TileOverlap(a.ddim.x, a.sdim.x)
        tile_y == TileOverlap(a.ddim.y, a.sdim.y)
        r == CopyLoop(CopyStart, 0, tile_x, tile_y, a, FALSE)
    IN /\ copyCall' = a
       /\ dst' = r.mem
       /\ reads' = r.reads
       /\ writes' = r.writes
       /\ UNCHANGED <<src, genVars, accessVars, laneVars, offsetVars>>

NoCopyCall ==
  [kind |-> "none",
   dst_elements_per_row |-> 0, dst_tile_dimensions |-> [x |-> 0, y |-> 0],
   src_elements_per_row |-> 0, src_tile_dimensions |-> [x |-> 0, y |-> 0],
   transpose_matrix |-> FALSE, clamp_mode |-> clamp_to_zero,
   ddim |-> [x |-> 0, y |-> 0], sdim |-> [x |-> 0, y |-> 0]]

CopyInit ==
  /\ copyCall = NoCopyCall
  /\ src = SrcContent
  /\ dst = DstContent
  /\ reads = {}
  /\ writes = <<>>

(***************************************************************************)
(* createMemoryAccess: the generator of the load/store functions.          *)
(* A std::optional is a sequence of length 0 (no value) or 1.              *)
(***************************************************************************)
has_value(o) == Len(o) = 1
value(o) == o[1]

Actions == {"load", "store"}                 \* enum class Action, lines 190-193
AddressSpaces == {"device", "threadgroup"}   \* enum class AddressSpace, lines 165-168

\* lines 170-178
keyword(addressSpace) ==
  IF addressSpace = "device" THEN "device" ELSE "threadgroup"

\* lines 180-188
offsetType(addressSpace) ==
  IF addressSpace = "device" THEN "uint" ELSE "ushort"

\* lines 195-200: a default-constructed MemoryAccessDescriptor
DefaultDescriptor ==
  [action |-> <<>>, addressSpace |-> <<>>, decodingBF16 |-> <<>>,
   indentationSpaceCount |-> 0]

\* CCV_NNC_MFA_PRECONDITION(expr): TRUE when the precondition fails; the
\* caller then reports InvalidDescriptor and produces nothing.
PreconditionFails(expr) == ~expr

\* std::to_string of a lane offset (0 or 1)
to_string(n) == IF n = 0 THEN "0" ELSE "1"

\* std::string(count, ' ')
RECURSIVE Spaces(_)
Spaces(count) == IF count <= 0 THEN "" ELSE " " \o Spaces(count - 1)

\* lines 260-271: the text of an address expression
createAddressText(addressSpace, transposed, offset) ==
  LET lineY == offsetType(addressSpace) \o "(matrix_origin.y)"
      lineX == offsetType(addressSpace) \o "(" \o "matrix_origin.x + "
               \o to_string(offset) \o ")"
  IN IF transposed
     THEN lineX \o " * elements_per_row + " \o lineY
     ELSE lineY \o " * elements_per_row + " \o lineX

\* lines 273-341: the statements of a two-part access
createTwoPartAccess(action, addressSpace, decodingBF16, transposed) ==
  LET addr(laneID) == offsetType(addressSpace) \o " address" \o to_string(laneID)
                      \o " = " \o createAddressText(addressSpace, transposed, laneID)
      fetch == IF action = "load"
               THEN IF decodingBF16
                    THEN <<"bfloat memoryForm0 = src[address0]",
                           "bfloat memoryForm1 = src[address1]">>
                    ELSE <<"U memoryForm0 = src[address0]",
                           "U memoryForm1 = src[address1]">>
               ELSE <<>>
      convert == IF action = "load"
                 THEN IF decodingBF16
                      THEN <<"",
                             "bfloat4 registerForm = *(thread bfloat4*)(thread_elements())",
                             "registerForm[1] = memoryForm0",
                             "registerForm[3] = memoryForm1",
                             "((thread bfloat4*)thread_elements())[0] = registerForm">>
                      ELSE <<"((thread T*)thread_elements())[0] = T(memoryForm0)",
                             "((thread T*)thread_elements())[1] = T(memoryForm1)">>
                 ELSE IF decodingBF16
                      THEN <<"bfloat4 registerForm = *(thread bfloat4*)(thread_elements())",
                             "registerForm[2] = registerForm[1]">>
                      ELSE <<"T registerForm0 = ((thread T*)thread_elements())[0]",
                             "T registerForm1 = ((thread T*)thread_elements())[1]">>
      put == IF action = "store"
             THEN IF decodingBF16
                  THEN <<"dst[address0] = registerForm[2]",
                         "dst[address1] = registerForm[3]">>
                  ELSE <<"dst[address0] = U(registerForm0)",
                         "dst[address1] = U(registerForm1)">>
             ELSE <<>>
  IN [part |-> "two", transposed |-> transposed,
      lines |-> <<addr(0), addr(1)>> \o fetch \o convert \o put]

\* lines 343-397: the statements of a one-part (packed) access
createOnePartAccess(action, addressSpace, decodingBF16) ==
  LET address == "auto combinedAddress = " \o createAddressText(addressSpace, FALSE, 0)
      rest ==
        IF action = "load"
        THEN IF decodingBF16
             THEN <<"bfloat2 memoryForm = *(const " \o keyword(addressSpace)
                      \o " packed_bfloat2*)(src + combinedAddress)",
                    "",
                    "bfloat4 registerForm = *(thread bfloat4*)(thread_elements())",
                    "((thread float*)&registerForm)[1] = *(thread float*)(&memoryForm)",
                    "((thread bfloat*)&registerForm)[1] = memoryForm[0]",
                    "((thread bfloat4*)thread_elements())[0] = registerForm">>
             ELSE <<"vec<U, 2> memoryForm = *(const " \o keyword(addressSpace)
                      \o " vec<U, 2>*)(src + combinedAddress)",
                    "*(thread_elements()) = vec<T, 2>(memoryForm)">>
        ELSE IF decodingBF16
             THEN <<"bfloat4 registerForm = *(thread bfloat4*)(thread_elements())",
                    "registerForm[2] = registerForm[1]",
                    "float memoryForm = ((thread float*)&registerForm)[1]",
                    "*(" \o keyword(addressSpace) \o " float*)"
                      \o "(dst + combinedAddress) = memoryForm">>
             ELSE <<"vec<T, 2> registerForm = *(thread_elements())",
                    "*(" \o keyword(addressSpace) \o " vec<U, 2>*)"
                      \o "(dst + combinedAddress) = vec<U, 2>(registerForm)">>
  IN [part |-> "one", transposed |-> FALSE, lines |-> <<address>> \o rest]

\* lines 399-419: a statement gets a terminator, a blank fragment does not
insertBlockContents(block) ==
  [i \in 1..Len(block) |-> IF block[i] = "" THEN "  " ELSE "  " \o block[i] \o ";"]

ElseBlock_PackedCodecStore(action, addressSpace, decodingBF16) ==
  createOnePartAccess(action, addressSpace, decodingBF16)

\* lines 427-433: the block of the plain 'else' under the codec
ElseBlock(action, addressSpace, decodingBF16) ==
  IF action = "load"
  THEN createOnePartAccess(action, addressSpace, decodingBF16)
  ELSE createTwoPartAccess(action, addressSpace, decodingBF16, FALSE)

\* lines 421-444: the branches of the emitted body, in order; each is the
\* opening line with its condition and the block it guards
createBranches(action, addressSpace, decodingBF16) ==
  <<[open |-> "if (transpose_matrix) {", cond |-> "transpose_matrix",
     block |-> createTwoPartAccess(action, addressSpace, decodingBF16, TRUE)]>>
  \o
  IF decodingBF16
  THEN <<[open |-> "} else {", cond |-> "else",
          block |-> ElseBlock(action, addressSpace, decodingBF16)]>>
  ELSE <<[open |-> "} else if (elements_per_row % 2 != 0) {",
          cond |-> "elements_per_row % 2 != 0",
          block |-> createTwoPartAccess(action, addressSpace, decodingBF16, FALSE)],
         [open |-> "} else {", cond |-> "else",
          block |-> createOnePartAccess(action, addressSpace, decodingBF16)]>>

RECURSIVE bodyLines(_)
bodyLines(branches) ==
  IF branches = <<>> THEN <<"}">>
  ELSE <<branches[1].open>> \o insertBlockContents(branches[1].block.lines)
       \o bodyLines(Tail(branches))

\* lines 212-258: the warning or template line and the signature
signatureLines(action, addressSpace, decodingBF16, indentation) ==
  LET pointerArgument(dataType) ==
        IF action = "load"
        THEN "const " \o keyword(addressSpace) \o " " \o dataType \o " *src"
        ELSE keyword(addressSpace) \o " " \o dataType \o " *dst"
      arguments == <<pointerArgument(IF decodingBF16 THEN "bfloat" ELSE "U"),
                     offsetType(addressSpace) \o " elements_per_row",
                     "ushort2 matrix_origin",
                     "bool transpose_matrix = false">>
  IN <<indentation \o (IF decodingBF16 THEN "// WARNING: 'T' must be 'float'."
                                       ELSE "template <typename U>"),
       indentation \o "METAL_FUNC void"
         \o (IF action = "load" THEN " load" ELSE " store")
         \o (IF decodingBF16 THEN "_bfloat" ELSE "")
         \o "(" \o arguments[1] \o ", " \o arguments[2] \o ", " \o arguments[3]
         \o ", " \o arguments[4] \o ") {">>

NoOutput == [text |-> <<>>, branches |-> <<>>]

\* lines 207-451: the text generated for a descriptor whose fields have values
generate(descriptor) ==
  IF descriptor.indentationSpaceCount < 0
  THEN \* line 210: std::string(count, ' ') with the count converted to a huge
       \* size_t throws std::length_error
       [error |-> "length_error", output |-> NoOutput]
  ELSE
    LET action == value(descriptor.action)
        addressSpace == value(descriptor.addressSpace)
        decodingBF16 == value(descriptor.decodingBF16)
        indentation == Spaces(descriptor.indentationSpaceCount)
        branches == createBranches(action, addressSpace, decodingBF16)
        body == bodyLines(branches)
    IN [error |-> "none",
        output |->
          [text |-> signatureLines(action, addressSpace, decodingBF16, indentation)
                    \o [i \in 1..Len(body) |-> indentation \o "  " \o body[i]]
                    \o <<indentation \o "}">>,
           branches |-> branches]]

createMemoryAccess_UncheckedCodec(descriptor) ==
  IF \/ PreconditionFails(has_value(descriptor.action))
     \/ PreconditionFails(has_value(descriptor.addressSpace))
  THEN [error |-> "InvalidDescriptor", output |-> NoOutput]
  ELSE generate([descriptor EXCEPT
                   !.decodingBF16 = IF has_value(@) THEN @ ELSE <<FALSE>>])

\* lines 202-452
createMemoryAccess(descriptor) ==
  IF \/ PreconditionFails(has_value(descriptor.action))
     \/ PreconditionFails(has_value(descriptor.addressSpace))
     \/ PreconditionFails(has_value(descriptor.decodingBF16))
  THEN [error |-> "InvalidDescriptor", output |-> NoOutput]
  ELSE generate(descriptor)

MaxIndent == 4      \* indentationSpaceCount ranges over -1..MaxIndent

\* The caller assigns a field of the descriptor (lines 535-549).
SetAction ==
  /\ genResult.error = "not called"
  /\ \E v \in Actions :
       desc' = [desc EXCEPT !.action = <<v>>]
  /\ assigned' = assigned \cup {"action"}
  /\ UNCHANGED <<genResult, copyVars, accessVars, laneVars, offsetVars>>

SetAddressSpace ==
  /\ genResult.error = "not called"
  /\ \E v \in AddressSpaces :
       desc' = [desc EXCEPT !.addressSpace = <<v>>]
  /\ assigned' = assigned \cup {"addressSpace"}
  /\ UNCHANGED <<genResult, copyVars, accessVars, laneVars, offsetVars>>

SetDecodingBF16 ==
  /\ genResult.error = "not called"
  /\ \E v \in BOOLEAN :
       desc' = [desc EXCEPT !.decodingBF16 = <<v>>]
  /\ assigned' = assigned \cup {"decodingBF16"}
  /\ UNCHANGED <<genResult, copyVars, accessVars, laneVars, offsetVars>>

SetIndentation ==
  /\ genResult.error = "not called"
  /\ \E v \in (0 - 1)..MaxIndent :
       desc' = [desc EXCEPT !.indentationSpaceCount = v]
  /\ assigned' = assigned \cup {"indentationSpaceCount"}
  /\ UNCHANGED <<genResult, copyVars, accessVars, laneVars, offsetVars>>

\* The caller calls createMemoryAccess(desc) (line 550).
CallCreateMemoryAccess ==
  /\ genResult.error = "not called"
  /\ genResult' = createMemoryAccess(desc)
  /\ UNCHANGED <<desc, assigned, copyVars, accessVars, laneVars, offsetVars>>

GenInit ==
  /\ desc = DefaultDescriptor
  /\ assigned = {}
  /\ genResult = [error |-> "not called", output |-> NoOutput]

(***************************************************************************)
(* Fixed-width integers.  TLC's integers are 32-bit signed, so a ushort,   *)
(* uint or ulong is a little-endian sequence of 2, 4 or 8 bytes and the    *)
(* arithmetic is done byte by byte, modulo 2^(8k).                         *)
(***************************************************************************)
\* The k-byte word of the natural number n.
RECURSIVE Word(_, _)
Word(n, k) == IF k = 0 THEN <<>> ELSE <<n % 256>> \o Word(n \div 256, k - 1)

\* Conversion of an unsigned word to k bytes: zero-extension or truncation.
ToWidth(w, k) == [i \in 1..k |-> IF i <= Len(w) THEN w[i] ELSE 0]

\* Conversion of a signed word (two's complement) to k >= Len(w) bytes.
SignExtend(w, k) ==
  [i \in 1..k |-> IF i <= Len(w) THEN w[i]
                  ELSE IF w[Len(w)] >= 128 THEN 255 ELSE 0]

RECURSIVE AddBytes(_, _, _, _)
AddBytes(a, b, i, carry) ==
  IF i > Len(a) THEN <<>>
  ELSE LET t == a[i] + b[i] + carry
       IN <<t % 256>> \o AddBytes(a, b, i + 1, t \div 256)

\* a + b modulo 2^(8k)
AddW(a, b, k) == AddBytes(ToWidth(a, k), ToWidth(b, k), 1, 0)

RECURSIVE ColumnSum(_, _, _, _)
ColumnSum(a, b, i, j) ==
  IF j > i THEN 0 ELSE a[j] * b[i + 1 - j] + ColumnSum(a, b, i, j + 1)

RECURSIVE MulBytes(_, _, _, _)
MulBytes(a, b, i, carry) ==
  IF i > Len(a) THEN <<>>
  ELSE LET t == ColumnSum(a, b, i, 1) + carry
       IN <<t % 256>> \o MulBytes(a, b, i + 1, t \div 256)

\* a * b modulo 2^(8k)
MulW(a, b, k) == MulBytes(ToWidth(a, k), ToWidth(b, k), 1, 0)

IsOdd(w) == w[1] % 2 = 1
IsZero(w) == \A i \in 1..Len(w) : w[i] = 0

(***************************************************************************)
(* The emitted load/store functions, run by one lane on one buffer.        *)
(***************************************************************************)
\* Width in bytes of the offset type: uint for device, ushort for threadgroup
\* (lines 180-188).
offsetBytes(addressSpace) == IF addressSpace = "device" THEN 4 ELSE 2

createAddress_NoLaneOffset(addressSpace, transposed, offset, elements_per_row, matrix_origin) ==
  LET lineY == ToWidth(matrix_origin.y, offsetBytes(addressSpace))
      lineX == ToWidth(matrix_origin.x, offsetBytes(addressSpace))
  IN IF transposed
     THEN AddW(MulW(lineX, elements_per_row, 4), lineY, 4)
     ELSE AddW(MulW(lineY, elements_per_row, 4), lineX, 4)

\* lines 260-271: the value of the emitted address expression.
\* matrix_origin.x + offset is an int (at most 65536) that the cast converts
\* to the offset type.  For device every operand is uint and the result is
\* the value modulo 2^32.  For threadgroup every operand is ushort, promoted
\* to int: the exact value is below 2^32 and is returned in 4 bytes; it
\* overflows int when it is 2^31 or more (see IntOverflows).
createAddress(addressSpace, transposed, offset, elements_per_row, matrix_origin) ==
  LET lineY == ToWidth(matrix_origin.y, offsetBytes(addressSpace))
      lineX == ToWidth(AddW(matrix_origin.x, Word(offset, 1), 4),
                       offsetBytes(addressSpace))
  IN IF transposed
     THEN AddW(MulW(lineX, elements_per_row, 4), lineY, 4)
     ELSE AddW(MulW(lineY, elements_per_row, 4), lineX, 4)

\* Signed overflow of the int expression of a threadgroup address.
IntOverflows(addressSpace, v) == addressSpace = "threadgroup" /\ v[4] >= 128

\* lines 277-281: "<offsetType> addressN = <expression>": the value converted
\* to the offset type.  Under int overflow the low 16 bits are the same
\* whether the build wraps the product or computes it wider.
TwoPartAddress(addressSpace, transposed, laneID, elements_per_row, matrix_origin) ==
  ToWidth(createAddress(addressSpace, transposed, laneID, elements_per_row, matrix_origin),
          offsetBytes(addressSpace))

\* lines 347-348: "auto combinedAddress = <expression>": uint for device, int
\* for threadgroup.  The results a build can produce, as 64-bit element
\* offsets from the pointer: under int overflow (undefined) the wrapped,
\* negative int or the value computed without wrapping.
CombinedAddresses(addressSpace, elements_per_row, matrix_origin) ==
  LET v == createAddress(addressSpace, FALSE, 0, elements_per_row, matrix_origin)
  IN IF IntOverflows(addressSpace, v)
     THEN {SignExtend(v, 8), ToWidth(v, 8)}
     ELSE {ToWidth(v, 8)}

\* Memory: element offset from the pointer (a 64-bit word) -> element value.
\* An offset never written holds what the buffer held at entry.
Background(decodingBF16) == IF decodingBF16 THEN 52685 ELSE <<"m">>
ReadMem(m, a, decodingBF16) == IF a \in DOMAIN m THEN m[a] ELSE Background(decodingBF16)
WriteMem(m, a, v) == [b \in DOMAIN m \cup {a} |-> IF b = a THEN v ELSE m[b]]
Next64(a) == AddW(a, Word(1, 1), 8)

\* Numeric conversions of the template types, uninterpreted.
U(v) == <<"U", v>>
T(v) == <<"T", v>>

\* The block of the emitted function `fn` that runs for the given arguments:
\* the first branch whose condition holds (lines 423, 435, 439, 441).
SelectBlock(branches, transpose_matrix, elements_per_row) ==
  LET holds(c) == \/ c = "else"
                  \/ c = "transpose_matrix" /\ transpose_matrix
                  \/ c = "elements_per_row % 2 != 0" /\ IsOdd(elements_per_row)
      first == CHOOSE i \in 1..Len(branches) :
                 /\ holds(branches[i].cond)
                 /\ \A j \in 1..(i - 1) : ~holds(branches[j].cond)
  IN branches[first].block

\* lines 301-307: registerForm[1] = memoryForm0; registerForm[3] = memoryForm1
DecodeTwoPart(regs, memoryForm0, memoryForm1) ==
  [[regs EXCEPT ![2] = memoryForm0] EXCEPT ![4] = memoryForm1]

DecodeOnePart_UpperHalvesOnly(regs, memoryForm0, memoryForm1) ==
  [[regs EXCEPT ![2] = memoryForm0] EXCEPT ![4] = memoryForm1]

\* lines 362-368: float 1 of registerForm (half-words 2 and 3, little-endian)
\* = the bits of memoryForm; then half-word 1 = memoryForm[0]
DecodeOnePart(regs, memoryForm0, memoryForm1) ==
  [[[regs EXCEPT ![3] = memoryForm0] EXCEPT ![4] = memoryForm1] EXCEPT ![2] = memoryForm0]

Encode_NoLaneCopy(regs) == regs

\* lines 319-321, 380-382: registerForm[2] = registerForm[1] on a copy of the
\* registers; half-words 2 and 3 of the result are what is stored
Encode(regs) == [regs EXCEPT ![3] = regs[2]]

\* Execution of a two-part block (lines 273-341) on registers regs and memory m.
RunTwoPart(fn, transposed, elements_per_row, matrix_origin, regs, m) ==
  LET address0 == TwoPartAddress(fn.addressSpace, transposed, 0, elements_per_row, matrix_origin)
      address1 == TwoPartAddress(fn.addressSpace, transposed, 1, elements_per_row, matrix_origin)
      p0 == ToWidth(address0, 8)
      p1 == ToWidth(address1, 8)
      memoryForm0 == ReadMem(m, p0, fn.decodingBF16)
      memoryForm1 == ReadMem(m, p1, fn.decodingBF16)
  IN IF fn.action = "load"
     THEN [part |-> "two", addresses |-> <<address0, address1>>,
           ops |-> <<[op |-> "read", kind |-> "scalar", at |-> p0],
                     [op |-> "read", kind |-> "scalar", at |-> p1]>>,
           mem |-> m,
           regs |-> IF fn.decodingBF16
                    THEN DecodeTwoPart(regs, memoryForm0, memoryForm1)
                    ELSE <<T(memoryForm0), T(memoryForm1)>>]
     ELSE LET registerForm == IF fn.decodingBF16 THEN Encode(regs) ELSE regs
              v0 == IF fn.decodingBF16 THEN registerForm[3] ELSE U(registerForm[1])
              v1 == IF fn.decodingBF16 THEN registerForm[4] ELSE U(registerForm[2])
          IN [part |-> "two", addresses |-> <<address0, address1>>,
              ops |-> <<[op |-> "write", kind |-> "scalar", at |-> p0],
                        [op |-> "write", kind |-> "scalar", at |-> p1]>>,
              mem |-> WriteMem(WriteMem(m, p0, v0), p1, v1),
              regs |-> regs]

\* Execution of a one-part block (lines 343-397) with combinedAddress = p.
RunOnePart(fn, p, regs, m) ==
  LET m0 == ReadMem(m, p, fn.decodingBF16)
      m1 == ReadMem(m, Next64(p), fn.decodingBF16)
  IN IF fn.action = "load"
     THEN [part |-> "one", addresses |-> <<p>>,
           ops |-> <<[op |-> "read", kind |-> "packed", at |-> p]>>,
           mem |-> m,
           regs |-> IF fn.decodingBF16
                    THEN DecodeOnePart(regs, m0, m1)
                    ELSE <<T(m0), T(m1)>>]
     ELSE LET registerForm == IF fn.decodingBF16 THEN Encode(regs) ELSE regs
              \* codec: float 1 of registerForm, half-words 2 and 3
              v0 == IF fn.decodingBF16 THEN registerForm[3] ELSE U(registerForm[1])
              v1 == IF fn.decodingBF16 THEN registerForm[4] ELSE U(registerForm[2])
          IN [part |-> "one", addresses |-> <<p>>,
              ops |-> <<[op |-> "write", kind |-> "packed", at |-> p]>>,
              mem |-> WriteMem(WriteMem(m, p, v0), Next64(p), v1),
              regs |-> regs]

\* The results of one call of the function emitted for fn.
RunEmitted(fn, elements_per_row, matrix_origin, transpose_matrix, regs, m) ==
  LET emitted == createMemoryAccess([action |-> <<fn.action>>,
                                     addressSpace |-> <<fn.addressSpace>>,
                                     decodingBF16 |-> <<fn.decodingBF16>>,
                                     indentationSpaceCount |-> 4])
      block == SelectBlock(emitted.output.branches, transpose_matrix, elements_per_row)
  IN IF block.part = "two"
     THEN {RunTwoPart(fn, block.transposed, elements_per_row, matrix_origin, regs, m)}
     ELSE {RunOnePart(fn, p, regs, m) :
             p \in CombinedAddresses(fn.addressSpace, elements_per_row, matrix_origin)}

\* ---- inputs ----
\* Row strides of the buffer, in its offset type.
StrideSamples(addressSpace) ==
  IF addressSpace = "device"
  THEN {Word(0, 4), Word(1, 4), Word(2, 4), Word(3, 4), Word(65536, 4),
        <<0, 0, 0, 128>>, <<255, 255, 255, 255>>}
  ELSE {Word(0, 2), Word(1, 2), Word(2, 2), Word(3, 2), Word(256, 2),
        Word(32768, 2), Word(65535, 2)}
\* ushort2 matrix_origin
OriginSamples ==
  [x : {Word(0, 2), Word(1, 2), Word(65535, 2)},
   y : {Word(0, 2), Word(1, 2), Word(65535, 2)}]
\* thread_elements() of a float storage as four half-words: zero, smallest
\* normal, largest subnormal, largest finite of either sign and a NaN among
\* the bfloat patterns of half-words 1 and 3.
CodecStorageSamples ==
  {<<4660, 0, 22136, 32639>>, <<0, 128, 65535, 65407>>, <<43981, 32704, 1, 127>>}
ClobberSamples == {<<57005, 48879, 51966, 61453>>, <<0, 0, 0, 0>>}
PlainStorage == <<<<"t0">>, <<"t1">>>>
PlainClobber == <<<<"c0">>, <<"c1">>>>

CallRecord(fn, matrix_origin, transpose_matrix, regs, r) ==
  [action |-> fn.action, matrix_origin |-> matrix_origin,
   transpose_matrix |-> transpose_matrix, regsBefore |-> regs,
   part |-> r.part, addresses |-> r.addresses, ops |-> r.ops]

Fn(action) ==
  [action |-> action, addressSpace |-> buffer.addressSpace,
   decodingBF16 |-> buffer.decodingBF16]

\* The lane calls store / store_bfloat on the buffer.
Store ==
  /\ phase = "fresh"
  /\ \E matrix_origin \in OriginSamples, transpose_matrix \in BOOLEAN :
       \E r \in RunEmitted(Fn("store"), buffer.elements_per_row, matrix_origin,
                           transpose_matrix, storage, mem) :
         /\ mem' = r.mem
         /\ storage' = r.regs
         /\ calls' = Append(calls, CallRecord(Fn("store"), matrix_origin,
                                              transpose_matrix, storage, r))
  /\ phase' = "stored"
  /\ UNCHANGED <<buffer, copyVars, genVars, laneVars, offsetVars>>

\* The lane's registers are reused for something else between the calls.
Clobber ==
  /\ phase = "stored"
  /\ \E s \in (IF buffer.decodingBF16 THEN ClobberSamples ELSE {PlainClobber}) :
       storage' = s
  /\ phase' = "clobbered"
  /\ UNCHANGED <<buffer, mem, calls, copyVars, genVars, laneVars, offsetVars>>

\* The lane calls load / load_bfloat on the buffer.
Load ==
  /\ phase \in {"fresh", "stored", "clobbered"}
  /\ \E matrix_origin \in OriginSamples, transpose_matrix \in BOOLEAN :
       \E r \in RunEmitted(Fn("load"), buffer.elements_per_row, matrix_origin,
                           transpose_matrix, storage, mem) :
         /\ mem' = r.mem
         /\ storage' = r.regs
         /\ calls' = Append(calls, CallRecord(Fn("load"), matrix_origin,
                                              transpose_matrix, storage, r))
  /\ phase' = "loaded"
  /\ UNCHANGED <<buffer, copyVars, genVars, laneVars, offsetVars>>

AccessInit ==
  /\ buffer \in {[addressSpace |-> a, decodingBF16 |-> b, elements_per_row |-> s] :
                   a \in AddressSpaces, b \in BOOLEAN,
                   s \in StrideSamples("device") \cup StrideSamples("threadgroup")}
  /\ buffer.elements_per_row \in StrideSamples(buffer.addressSpace)
  /\ storage \in CodecStorageSamples \cup {PlainStorage}
  /\ (storage = PlainStorage) = ~buffer.decodingBF16
  /\ mem = <<>>
  /\ phase = "fresh"
  /\ calls = <<>>

\* The state of the buffer and the lane when the component is not exercised.
AccessIdle ==
  /\ buffer = [addressSpace |-> "device", decodingBF16 |-> FALSE,
               elements_per_row |-> Word(0, 4)]
  /\ storage = PlainStorage
  /\ mem = <<>>
  /\ phase = "fresh"
  /\ calls = <<>>

(***************************************************************************)
(* morton_order and the layout of the lanes within an 8x8 SIMD matrix.     *)
(***************************************************************************)
SimdWidth == 32               \* lanes 0..31 of the layout diagram
QUADRANT_SPAN_M == 4          \* line 485
THREADS_PER_QUADRANT == 8     \* line 486
Lanes == 0..(SimdWidth - 1)

\* lines 467-474: the lane shown at each position, row by row
LayoutDiagram ==
  << << 0,  0,  1,  1,  8,  8,  9,  9>>,
     << 2,  2,  3,  3, 10, 10, 11, 11>>,
     << 4,  4,  5,  5, 12, 12, 13, 13>>,
     << 6,  6,  7,  7, 14, 14, 15, 15>>,
     <<16, 16, 17, 17, 24, 24, 25, 25>>,
     <<18, 18, 19, 19, 26, 26, 27, 27>>,
     <<20, 20, 21, 21, 28, 28, 29, 29>>,
     <<22, 22, 23, 23, 30, 30, 31, 31>> >>

M_in_quadrant_NotHalved(lane_id) == lane_id % (THREADS_PER_QUADRANT \div 2)

\* line 488
M_in_quadrant(lane_id) == (lane_id \div 2) % (THREADS_PER_QUADRANT \div 2)

N_floor_of_quadrant_NotDoubled(quad_id) == ((quad_id \div 2) % 2) * 2

\* line 491: (quad_id & 2) * 2, 0 or 4
N_floor_of_quadrant(quad_id) == (((quad_id \div 2) % 2) * 2) * 2

\* lines 481-496; the result is ushort2(N_in_simd, M_in_simd), x the column
\* and y the row
morton_order(thread_index_in_simdgroup) ==
  LET lane_id == thread_index_in_simdgroup
      quad_id == lane_id \div 4
      M_floor_of_quadrant == (quad_id \div 4) * QUADRANT_SPAN_M
      M_in_simd == M_floor_of_quadrant + M_in_quadrant(lane_id)
      N_in_quadrant == (lane_id % 2) * 2
      N_in_simd == N_floor_of_quadrant(quad_id) + N_in_quadrant
  IN [x |-> N_in_simd, y |-> M_in_simd]

\* The lanes of a simdgroup run in some order; the orders explored are
\* start, start + step, start + 2*step, ... modulo the SIMD width.
ScheduleSteps == {1, 5, 31}
NextLane == (schedule.start + lanesDone * schedule.step) % SimdWidth

\* A lane calls morton_order and takes the two elements of its vec<T, 2>:
\* the cell at its coordinate and the next one of the row.
LaneRuns ==
  /\ lanesDone < SimdWidth
  /\ LET lane == NextLane
         c == morton_order(lane)
         mine == {<<c.x, c.y>>, <<c.x + 1, c.y>>}
     IN /\ coords' = [l \in DOMAIN coords \cup {lane} |->
                        IF l = lane THEN c ELSE coords[l]]
        /\ owner' = [cell \in DOMAIN owner \cup mine |->
                       (IF cell \in DOMAIN owner THEN owner[cell] ELSE {})
                       \cup (IF cell \in mine THEN {lane} ELSE {})]
  /\ lanesDone' = lanesDone + 1
  /\ UNCHANGED <<schedule, copyVars, genVars, accessVars, offsetVars>>

LaneInit ==
  /\ schedule \in [start : Lanes, step : ScheduleSteps]
  /\ lanesDone = 0
  /\ owner = <<>>
  /\ coords = <<>>

LaneIdle ==
  /\ schedule = [start |-> 0, step |-> 1]
  /\ lanesDone = 0
  /\ owner = <<>>
  /\ coords = <<>>

(***************************************************************************)
(* simdgroup_matrix_storage::apply_offset, the device overload.            *)
(***************************************************************************)
\* lines 517-523: the element offset added to src, a ulong.  The product of
\* the two uint operands is a uint, converted to ulong afterwards.
apply_offset(elements_per_row, matrix_origin, transpose_matrix) ==
  IF transpose_matrix
  THEN AddW(ToWidth(MulW(matrix_origin.x, elements_per_row, 4), 8), matrix_origin.y, 8)
  ELSE AddW(ToWidth(MulW(matrix_origin.y, elements_per_row, 4), 8), matrix_origin.x, 8)

\* uint elements_per_row and the components of uint2 matrix_origin
UintSamples ==
  {Word(0, 4), Word(1, 4), Word(3, 4), Word(65535, 4), Word(65536, 4),
   <<0, 0, 0, 128>>, <<255, 255, 255, 255>>}

CallApplyOffset ==
  /\ ~offsetCall.called
  /\ \E elements_per_row \in UintSamples, x \in UintSamples, y \in UintSamples,
        transpose_matrix \in BOOLEAN :
       offsetCall' =
         [called |-> TRUE, elements_per_row |-> elements_per_row,
          matrix_origin |-> [x |-> x, y |-> y],
          transpose_matrix |-> transpose_matrix,
          result |-> apply_offset(elements_per_row, [x |-> x, y |-> y],
                                  transpose_matrix)]
  /\ UNCHANGED <<copyVars, genVars, accessVars, laneVars>>

OffsetInit ==
  offsetCall = [called |-> FALSE, elements_per_row |-> Word(0, 4),
                matrix_origin |-> [x |-> Word(0, 4), y |-> Word(0, 4)],
                transpose_matrix |-> FALSE, result |-> Word(0, 8)]

(***************************************************************************)
(* Specifications, one per component; the other components stay idle.      *)
(***************************************************************************)
Init == CopyInit /\ GenInit /\ AccessIdle /\ LaneIdle /\ OffsetInit
InitAccess == CopyInit /\ GenInit /\ AccessInit /\ LaneIdle /\ OffsetInit
InitLane == CopyInit /\ GenInit /\ AccessIdle /\ LaneInit /\ OffsetInit

NextCopy == AsyncCopyForward \/ AsyncCopyReverse
SpecCopy == Init /\ [][NextCopy]_vars

NextGen ==
  \/ SetAction
  \/ SetAddressSpace
  \/ SetDecodingBF16
  \/ SetIndentation
  \/ CallCreateMemoryAccess
SpecGen == Init /\ [][NextGen]_vars

NextAccess == Store \/ Clobber \/ Load
SpecAccess == InitAccess /\ [][NextAccess]_vars

NextLaneStep == LaneRuns
SpecLane == InitLane /\ [][NextLaneStep]_vars

NextOffset == CallApplyOffset
SpecOffset == Init /\ [][NextOffset]_vars

(***************************************************************************)
(* Claims about the tiled copies.                                          *)
(***************************************************************************)
\* Tile dimensions after the transpose swap, as the claims state them.
AfterSwap(t, d) == IF t THEN [x |-> d.y, y |-> d.x] ELSE d
DstDims == AfterSwap(copyCall.transpose_matrix, copyCall.dst_tile_dimensions)
SrcDims == AfterSwap(copyCall.transpose_matrix, copyCall.src_tile_dimensions)
DstCells == {c \in (0..MaxExtent) \X (0..MaxExtent) : c[1] < DstDims.x /\ c[2] < DstDims.y}
DstIndexOf(c) == c[2] * copyCall.dst_elements_per_row + c[1]
SrcAt(x, y) == src[y * copyCall.src_elements_per_row + x]

\* The value C1 gives destination cell c.
C1_Expected(c) ==
  IF c[1] < SrcDims.x /\ c[2] < SrcDims.y
  THEN SrcAt(c[1], c[2])
  ELSE IF copyCall.clamp_mode = clamp_to_edge /\ SrcDims.x > 0 /\ SrcDims.y > 0
  THEN SrcAt(Min(c[1], SrcDims.x - 1), Min(c[2], SrcDims.y - 1))
  ELSE 0

\* c is iterated before d (row-major: y outer, x inner).
Before(c, d) == c[2] < d[2] \/ (c[2] = d[2] /\ c[1] < d[1])
LastWriter(c) == \A d \in DstCells : Before(c, d) => DstIndexOf(d) # DstIndexOf(c)

\* C1 as stated: after a forward tiled copy every destination cell (x,y) within
\* the destination extent holds, at dst[y*dstStride+x], the in-bounds source
\* cell, else the edge-clamped source cell (clamp_to_edge, both source extents
\* positive), else zero.
C1_AsStated ==
  copyCall.kind = "forward" =>
    \A c \in DstCells : dst[DstIndexOf(c)] = C1_Expected(c)

\* C1 amended: the same, for every destination cell whose location is not the
\* location of a cell iterated later (rows overlap when dstStride < extent x);
\* that is every cell when dstStride >= dst extent x or dst extent y <= 1.
C1_ForwardCopyValues ==
  copyCall.kind = "forward" =>
    /\ \A c \in DstCells : LastWriter(c) => dst[DstIndexOf(c)] = C1_Expected(c)
    /\ (copyCall.dst_elements_per_row >= DstDims.x \/ DstDims.y <= 1) =>
          \A c \in DstCells : dst[DstIndexOf(c)] = C1_Expected(c)
    /\ (copyCall.clamp_mode = clamp_to_edge /\ (SrcDims.x = 0 \/ SrcDims.y = 0)) =>
          \A c \in DstCells : dst[DstIndexOf(c)] = 0

\* Witness of C1: the clamp-to-edge scenario, destination (4,4), source (2,2).
C1_Witness ==
  /\ copyCall.kind = "forward"
  /\ copyCall.clamp_mode = clamp_to_edge
  /\ copyCall.dst_tile_dimensions = [x |-> 4, y |-> 4]
  /\ copyCall.src_tile_dimensions = [x |-> 2, y |-> 2]
  /\ copyCall.dst_elements_per_row = 4
  /\ copyCall.src_elements_per_row = 4
  /\ dst[3 * 4 + 3] = src[1 * 4 + 1]
  /\ dst[0 * 4 + 2] = src[0 * 4 + 1]

\* C2 as stated: every source cell read by a tiled copy lies within the
\* src_tile_dimensions argument as the caller passed it.
C2_AsStated ==
  \A r \in reads : r.x < copyCall.src_tile_dimensions.x
                  /\ r.y < copyCall.src_tile_dimensions.y

\* C2 amended: every source cell read by a tiled copy lies within the source
\* extent after the transpose swap (x < passed y and y < passed x when
\* transpose_matrix is set), and is read at index y*srcStride+x.
C2_ReadsWithinSwappedExtent ==
  \A r \in reads : /\ r.x < SrcDims.x
                  /\ r.y < SrcDims.y
                  /\ r.index = r.y * copyCall.src_elements_per_row + r.x

\* Witness of C2: a transposed clamp-to-edge copy from a 1x3 source reads cells.
C2_Witness ==
  /\ copyCall.kind = "forward"
  /\ copyCall.transpose_matrix
  /\ copyCall.clamp_mode = clamp_to_edge
  /\ copyCall.src_tile_dimensions = [x |-> 1, y |-> 3]
  /\ copyCall.dst_tile_dimensions = [x |-> 4, y |-> 4]
  /\ Cardinality(reads) = 3

WrittenCells == {<<writes[i].x, writes[i].y>> : i \in 1..Len(writes)}
OverlapCells ==
  {c \in (0..MaxExtent) \X (0..MaxExtent) :
     c[1] < Min(DstDims.x, SrcDims.x) /\ c[2] < Min(DstDims.y, SrcDims.y)}

\* C3: a reverse tiled copy writes exactly the cells of the overlap
\* min(dst extent, src extent) per axis (after the swap), each once at
\* dst[y*dstStride+x] with src[y*srcStride+x]; every other destination
\* location keeps its previous value.
C3_ReverseCopyOverlap ==
  copyCall.kind = "reverse" =>
    /\ WrittenCells = OverlapCells
    /\ Len(writes) = Cardinality(OverlapCells)
    /\ \A i \in 1..Len(writes) :
         /\ writes[i].index = DstIndexOf(<<writes[i].x, writes[i].y>>)
         /\ writes[i].value = SrcAt(writes[i].x, writes[i].y)
    /\ \A i \in Indices :
         (i \notin {DstIndexOf(c) : c \in OverlapCells}) => dst[i] = DstContent[i]

\* Witness of C3: destination (2,2), source (4,4): the 2x2 overlap is written.
C3_Witness ==
  /\ copyCall.kind = "reverse"
  /\ copyCall.dst_tile_dimensions = [x |-> 2, y |-> 2]
  /\ copyCall.src_tile_dimensions = [x |-> 4, y |-> 4]
  /\ copyCall.dst_elements_per_row = 4
  /\ copyCall.src_elements_per_row = 4
  /\ Len(writes) = 4
  /\ dst[1 * 4 + 1] = src[1 * 4 + 1]
  /\ dst[0 * 4 + 2] = DstContent[2]

(***************************************************************************)
(* Claims about createMemoryAccess and the functions it emits.             *)
(***************************************************************************)
Stride == buffer.elements_per_row
IsLoad(c) == c.action = "load"
TwoScalar(c) ==
  /\ c.part = "two"
  /\ Len(c.ops) = 2
  /\ \A i \in 1..2 : /\ c.ops[i].kind = "scalar"
                      /\ c.ops[i].op = (IF IsLoad(c) THEN "read" ELSE "write")
OnePacked(c) ==
  /\ c.part = "one"
  /\ Len(c.ops) = 1
  /\ c.ops[1].kind = "packed"
  /\ c.ops[1].op = (IF IsLoad(c) THEN "read" ELSE "write")
\* (origin.x + k) * stride + origin.y, in the offset type of the buffer
TransposedAddress(c, k) ==
  ToWidth(AddW(MulW(AddW(c.matrix_origin.x, Word(k, 1), 8), Stride, 8),
               c.matrix_origin.y, 8),
          offsetBytes(buffer.addressSpace))
\* origin.y * stride + (origin.x + k), in the offset type of the buffer
NonTransposedAddress(c, k) ==
  ToWidth(AddW(MulW(c.matrix_origin.y, Stride, 8),
               AddW(c.matrix_origin.x, Word(k, 1), 8), 8),
          offsetBytes(buffer.addressSpace))

\* C4: every emitted function follows the branch table: transpose takes two
\* scalar accesses at the transposed addresses; otherwise codec off takes two
\* scalar accesses for an odd stride and one packed access for an even one,
\* and codec on takes one packed access for Load and two scalar ones for Store.
C4_BranchTable ==
  \A i \in 1..Len(calls) :
    LET c == calls[i]
    IN IF c.transpose_matrix
       THEN /\ TwoScalar(c)
            /\ c.addresses = <<TransposedAddress(c, 0), TransposedAddress(c, 1)>>
       ELSE IF ~buffer.decodingBF16
       THEN IF IsOdd(Stride)
            THEN /\ TwoScalar(c)
                 /\ c.addresses = <<NonTransposedAddress(c, 0), NonTransposedAddress(c, 1)>>
            ELSE OnePacked(c)
       ELSE IF IsLoad(c)
       THEN OnePacked(c)
       ELSE /\ TwoScalar(c)
            /\ c.addresses = <<NonTransposedAddress(c, 0), NonTransposedAddress(c, 1)>>

\* Witness of C4: a codec store, not transposed, even stride, took two scalar
\* writes, and a codec load with the same arguments one packed read.
C4_Witness ==
  /\ Len(calls) = 2
  /\ buffer.decodingBF16
  /\ ~IsOdd(Stride)
  /\ ~calls[1].transpose_matrix /\ ~IsLoad(calls[1]) /\ TwoScalar(calls[1])
  /\ ~calls[2].transpose_matrix /\ IsLoad(calls[2]) /\ OnePacked(calls[2])

RoundTrip ==
  /\ phase = "loaded"
  /\ Len(calls) = 2
  /\ buffer.decodingBF16
  /\ calls[1].matrix_origin = calls[2].matrix_origin
  /\ calls[1].transpose_matrix = calls[2].transpose_matrix
Restored ==
  /\ storage[2] = calls[1].regsBefore[2]
  /\ storage[4] = calls[1].regsBefore[4]

\* C5 as stated: store_bfloat then load_bfloat with the same arguments, for any
\* origin, stride and transpose flag, leaves half-words 1 and 3 of the loaded
\* register equal to the half-words 1 and 3 that were stored.
C5_AsStated == RoundTrip => Restored

\* The two element addresses of the call do not wrap around: with transpose
\* the stride is not 0; without it origin.y*stride + origin.x + 1 < 2^16 for
\* threadgroup, and (origin.y*stride + origin.x) mod 2^32 # 2^32 - 1 for device.
NoWrap ==
  LET c == calls[1]
      exact == AddW(MulW(c.matrix_origin.y, Stride, 8), c.matrix_origin.x, 8)
      next == Next64(exact)
  IN IF c.transpose_matrix
     THEN ~IsZero(Stride)
     ELSE IF buffer.addressSpace = "threadgroup"
     THEN \A i \in 3..8 : next[i] = 0
     ELSE ToWidth(exact, 4) # <<255, 255, 255, 255>>

\* C5 amended: the round trip restores half-words 1 and 3 whatever the
\* register held before the Load, provided the two element addresses are
\* distinct and do not wrap around in the offset type (NoWrap).
C5_RoundTrip == (RoundTrip /\ NoWrap) => Restored

\* Witness of C5: a round trip through the packed route with the registers
\* overwritten between the store and the load.
C5_Witness ==
  /\ RoundTrip /\ NoWrap /\ Restored
  /\ calls[2].part = "one"
  /\ calls[2].regsBefore # calls[1].regsBefore
  /\ calls[2].regsBefore[2] # storage[2]
  /\ storage[2] # storage[4]

GreaterThanOne(w) == ~IsZero(w) /\ ~(w[1] = 1 /\ IsZero(Tail(w)))

\* C9: for every stride > 1 and every origin the two addresses the emitted
\* code computes in the offset type differ, transposed and not transposed,
\* also when x+1 or the product wraps around.
C9_AddressesDistinct ==
  GreaterThanOne(Stride) =>
    \A i \in 1..Len(calls) :
      /\ calls[i].part = "two" => calls[i].addresses[1] # calls[i].addresses[2]
      /\ \A t \in BOOLEAN :
           TwoPartAddress(buffer.addressSpace, t, 0, Stride, calls[i].matrix_origin)
           # TwoPartAddress(buffer.addressSpace, t, 1, Stride, calls[i].matrix_origin)

\* Witness of C9: a transposed threadgroup access at origin.x = 65535 with
\* stride 65535, where x+1 and the product wrap around.
C9_Witness ==
  /\ Len(calls) = 1
  /\ buffer.addressSpace = "threadgroup"
  /\ Stride = <<255, 255>>
  /\ calls[1].transpose_matrix
  /\ calls[1].matrix_origin.x = <<255, 255>>
  /\ calls[1].part = "two"
  /\ calls[1].addresses[1] # calls[1].addresses[2]

\* The last call was load_bfloat through the packed route.
PackedCodecLoad ==
  /\ phase = "loaded"
  /\ buffer.decodingBF16
  /\ IsLoad(calls[Len(calls)])
  /\ OnePacked(calls[Len(calls)])
\* The narrow pair (m0, m1) the packed read fetched: the two consecutive
\* elements at combinedAddress (the load leaves memory as it was).
MemoryForm ==
  LET p == calls[Len(calls)].addresses[1]
  IN <<ReadMem(mem, p, TRUE), ReadMem(mem, Next64(p), TRUE)>>

\* C11 as stated: after the packed load_bfloat has read (m0, m1), half-word 1
\* of the storage is m0, half-word 3 is m1, and half-words 0 and 2 are zero,
\* whatever the storage held before.
C11_AsStated ==
  PackedCodecLoad =>
    storage = <<0, MemoryForm[1], 0, MemoryForm[2]>>

\* C11 amended: after the packed load_bfloat has read (m0, m1), half-word 1
\* of the storage is m0 and half-word 3 is m1; half-word 2 is a second copy
\* of m0 and half-word 0 keeps what the storage held before the call.
C11_PackedLoadLanes ==
  PackedCodecLoad =>
    storage = <<calls[Len(calls)].regsBefore[1], MemoryForm[1],
                MemoryForm[1], MemoryForm[2]>>

\* Witness of C11: a packed load_bfloat of a pair written by store_bfloat,
\* into a storage whose four half-words were all nonzero and different from
\* what the load leaves in half-words 1, 2 and 3.
C11_Witness ==
  /\ PackedCodecLoad
  /\ Len(calls) = 2 /\ ~IsLoad(calls[1])
  /\ MemoryForm = <<calls[1].regsBefore[2], calls[1].regsBefore[4]>>
  /\ MemoryForm[1] # 0 /\ MemoryForm[1] # MemoryForm[2]
  /\ calls[2].regsBefore[1] # 0
  /\ calls[2].regsBefore[2] # MemoryForm[1]
  /\ calls[2].regsBefore[3] # MemoryForm[1]
  /\ calls[2].regsBefore[4] # MemoryForm[2]
  /\ storage[1] = calls[2].regsBefore[1]
  /\ storage[3] = MemoryForm[1]

Called == genResult.error # "not called"
OptionalsSet ==
  has_value(desc.action) /\ has_value(desc.addressSpace) /\ has_value(desc.decodingBF16)

AllLanesDone == lanesDone = SimdWidth
Coordinates == {coords[l] : l \in DOMAIN coords}
LanesAt(c) == {l \in DOMAIN coords : coords[l] = c}

\* C6 as stated: morton_order over lanes 0..31 yields exactly 16 distinct
\* (col,row) pairs, each produced by exactly 2 lanes.
C6_AsStated ==
  AllLanesDone =>
    /\ Cardinality(Coordinates) = 16
    /\ \A c \in Coordinates : Cardinality(LanesAt(c)) = 2

\* C6 amended: morton_order over lanes 0..31 yields exactly 32 distinct
\* (col,row) pairs, each produced by exactly 1 lane, with an even column in
\* 0..6 and a row in 0..7.
C6_CoordinatesDistinct ==
  /\ \A c \in Coordinates :
       /\ Cardinality(LanesAt(c)) = 1
       /\ c.x \in {0, 2, 4, 6}
       /\ c.y \in 0..7
  /\ Cardinality(Coordinates) = lanesDone
  /\ AllLanesDone => Cardinality(Coordinates) = 32

\* Witness of C6: all 32 lanes have run.
C6_Witness ==
  /\ AllLanesDone
  /\ DOMAIN coords = 0..31
  /\ coords[1] = [x |-> 2, y |-> 0]
  /\ coords[31] = [x |-> 6, y |-> 7]

\* C7: with each lane owning (col,row) and (col+1,row), no cell is owned by
\* two lanes, every owned cell lies inside the 8x8 grid, all 64 cells are
\* owned once every lane has run, and the owner of a cell is the lane the
\* layout diagram shows at that position.
C7_Partition ==
  /\ \A cell \in DOMAIN owner :
       /\ cell[1] \in 0..7 /\ cell[2] \in 0..7
       /\ Cardinality(owner[cell]) = 1
       /\ owner[cell] = {LayoutDiagram[cell[2] + 1][cell[1] + 1]}
  /\ Cardinality(DOMAIN owner) = 2 * lanesDone
  /\ AllLanesDone => DOMAIN owner = (0..7) \X (0..7)

\* Witness of C7: all 64 cells are owned.
C7_Witness ==
  /\ AllLanesDone
  /\ Cardinality(DOMAIN owner) = 64
  /\ owner[<<7, 7>>] = {31}
  /\ owner[<<4, 0>>] = {8}

====
